---- MODULE Spec2Model ----
(***************************************************************************)
(* Model of src-tauri/src/lib.rs: the three commands fetch_status,         *)
(* set_interval and get_interval over AppState { interval: Mutex<u64> },   *)
(* and the tray handlers on_menu_event / on_tray_icon_event.               *)
(***************************************************************************)
EXTENDS Integers, Sequences, FiniteSets, TLC

\* ------------------------------------------------------------------ bounds

\* Total number of events of one behaviour: the command invocations
\* (fetch_status, set_interval, get_interval) of the presentation layer and
\* the tray events the host dispatches.
MaxEvents == 3

\* ------------------------------------------------------------- u64 values

\* A u64 is kept as two 32-bit words, each word as two 16-bit half-words
\* <<upper, lower>>: the widest value, 2^64-1, is then representable, and a
\* store or load of the scalar is the two word accesses it is on a 32-bit
\* target, which is what the Mutex has to make indivisible.
HalfMax == 65535

WordZero == <<0, 0>>
WordMax == <<HalfMax, HalfMax>>

U64(hi, lo) == [hi |-> hi, lo |-> lo]

Zero == U64(WordZero, WordZero)
U64Max == U64(WordMax, WordMax)

\* Faulty variant: the store starts at 1000.
DefaultInterval1000 == U64(WordZero, <<0, 1000>>)

\* Mutex::new(5000)
DefaultInterval == U64(WordZero, <<0, 5000>>)

\* The arguments the presentation layer passes to set_interval.
U64Vals == {Zero, U64Max}

\* ------------------------------------------------------- serde_json::Value

\* A Value is a tagged tree; every node has the same four fields.
Node(t, n, s, kids) == [t |-> t, n |-> n, s |-> s, kids |-> kids]

JNull == Node("null", 0, "", <<>>)
JBool(b) == Node("bool", IF b THEN 1 ELSE 0, "", <<>>)
JNum(n) == Node("num", n, "", <<>>)
JStr(s) == Node("str", 0, s, <<>>)
JArr(elems) == Node("arr", 0, "", elems)
JObj(members) == Node("obj", 0, "", members)
JMember(k, v) == Node("member", 0, k, <<v>>)

\* The response text is a sequence of lexical tokens.
StrTok == {"\"a\"", "\"b\""}
NumTok == {"1", "2"}

StrOf(tok) == IF tok = "\"a\"" THEN "a" ELSE "b"
NumOf(tok) == IF tok = "1" THEN 1 ELSE 2
KeyRank(k) == IF k = "a" THEN 1 ELSE 2

\* Map::insert: a second member with the same key replaces the first; the
\* members are kept in key order.
RECURSIVE MapInsert(_, _, _)
MapInsert(members, k, v) ==
    IF members = <<>> THEN <<JMember(k, v)>>
    ELSE IF Head(members).s = k THEN <<JMember(k, v)>> \o Tail(members)
    ELSE IF KeyRank(k) < KeyRank(Head(members).s)
         THEN <<JMember(k, v)>> \o members
    ELSE <<Head(members)>> \o MapInsert(Tail(members), k, v)

POk(v, next) == [ok |-> TRUE, val |-> v, next |-> next, msg |-> ""]
PErr(msg) == [ok |-> FALSE, val |-> JNull, next |-> 0, msg |-> msg]

EofValue == "EOF while parsing a value"
EofList == "EOF while parsing a list"
EofObject == "EOF while parsing an object"
ExpectedValue == "expected value"
ExpectedComma == "expected , or ]"
ExpectedCommaObj == "expected , or }"
ExpectedColon == "expected :"
KeyMustBeString == "key must be a string"
TrailingChars == "trailing characters"

RECURSIVE ParseValue(_, _), ParseElems(_, _, _), ParseMembers(_, _, _)

\* One value starting at token i.
ParseValue(toks, i) ==
    IF i > Len(toks) THEN PErr(EofValue)
    ELSE LET tok == toks[i] IN
         IF tok \in NumTok THEN POk(JNum(NumOf(tok)), i + 1)
         ELSE IF tok \in StrTok THEN POk(JStr(StrOf(tok)), i + 1)
         ELSE IF tok = "null" THEN POk(JNull, i + 1)
         ELSE IF tok = "true" THEN POk(JBool(TRUE), i + 1)
         ELSE IF tok = "false" THEN POk(JBool(FALSE), i + 1)
         ELSE IF tok = "["
              THEN IF i + 1 > Len(toks) THEN PErr(EofList)
                   ELSE IF toks[i + 1] = "]" THEN POk(JArr(<<>>), i + 2)
                   ELSE ParseElems(toks, i + 1, <<>>)
         ELSE IF tok = "{"
              THEN IF i + 1 > Len(toks) THEN PErr(EofObject)
                   ELSE IF toks[i + 1] = "}" THEN POk(JObj(<<>>), i + 2)
                   ELSE ParseMembers(toks, i + 1, <<>>)
         ELSE PErr(ExpectedValue)

\* The elements of an array, token i being the start of an element.
ParseElems(toks, i, acc) ==
    LET r == ParseValue(toks, i) IN
    IF ~r.ok THEN r
    ELSE IF r.next > Len(toks) THEN PErr(EofList)
    ELSE IF toks[r.next] = "," THEN ParseElems(toks, r.next + 1, Append(acc, r.val))
    ELSE IF toks[r.next] = "]" THEN POk(JArr(Append(acc, r.val)), r.next + 1)
    ELSE PErr(ExpectedComma)

\* The members of an object, token i being the start of a key.
ParseMembers(toks, i, acc) ==
    IF i > Len(toks) THEN PErr(EofObject)
    ELSE IF toks[i] \notin StrTok THEN PErr(KeyMustBeString)
    ELSE IF i + 1 > Len(toks) THEN PErr(EofObject)
    ELSE IF toks[i + 1] # ":" THEN PErr(ExpectedColon)
    ELSE LET r == ParseValue(toks, i + 2) IN
         IF ~r.ok THEN r
         ELSE IF r.next > Len(toks) THEN PErr(EofObject)
         ELSE IF toks[r.next] = ","
              THEN ParseMembers(toks, r.next + 1, MapInsert(acc, StrOf(toks[i]), r.val))
         ELSE IF toks[r.next] = "}"
              THEN POk(JObj(MapInsert(acc, StrOf(toks[i]), r.val)), r.next + 1)
         ELSE PErr(ExpectedCommaObj)

\* serde_json::from_str: one value, then the end of the input.
FromStr(toks) ==
    LET r == ParseValue(toks, 1) IN
    IF ~r.ok THEN r
    ELSE IF r.next # Len(toks) + 1 THEN PErr(TrailingChars)
    ELSE r

\* ------------------------------------------------------------- responder

\* What the remote end answers to one GET: an HTTP status, whether the body
\* can be read as text (Response::text), and the text as tokens.
Response(status, decodable, body) ==
    [answered |-> TRUE, status |-> status, decodable |-> decodable, body |-> body]

NoResponse == [answered |-> FALSE, status |-> 0, decodable |-> FALSE, body |-> <<>>]

BodyObj == <<"{", "\"a\"", ":", "1", "}">>
BodyErrObj == <<"{", "\"b\"", ":", "\"a\"", "}">>
BodyHtml == <<"<html>">>

Responses ==
    { Response(200, TRUE, BodyObj),
      Response(500, TRUE, BodyErrObj),
      Response(502, TRUE, BodyHtml),
      Response(200, FALSE, <<>>) }

\* e.to_string() of the reqwest errors of send() and of text().
TransportMsg == "error sending request"
DecodeMsg == "error decoding response body"

\* Result<Value, String>
Ok(v) == [kind |-> "Ok", val |-> v, msg |-> ""]
Err(msg) == [kind |-> "Err", val |-> JNull, msg |-> msg]
NoResult == [kind |-> "none", val |-> JNull, msg |-> ""]

\* ------------------------------------------------------------------ state

\* The execution contexts on which the presentation layer invokes commands.
NumCtx == 3
Ctx == 1..NumCtx
NoCtx == 0

VARIABLES
    interval,    \* AppState.interval: the u64 inside the Mutex
    lockHolder,  \* the context holding the MutexGuard, or NoCtx
    poisoned,    \* the Mutex's poison flag
    pc,          \* where each context is in its command
    ms,          \* set_interval's argument
    tmp,         \* get_interval's copy of the value while it is read
    ret,         \* what the last finished command returned to its caller
    wire,        \* the response to the request of the context's fetch_status
    reqs,        \* requests issued by the context's current fetch_status
    window,      \* the "main" webview window
    proc,        \* "running", "exiting" (app.exit) or "panicked"
    exitCode,    \* <<>> while running, <<code>> once the process exits
    calls,       \* commands invoked and tray events dispatched so far
    setCalled,   \* history: set_interval has been called
    known,       \* history: the value every get_interval must return now
    lastSet,     \* history: the argument of the last set_interval to hold the lock
    lastTray     \* history: the last tray event dispatched

vars == <<interval, lockHolder, poisoned, pc, ms, tmp, ret, wire, reqs, window,
          proc, exitCode, calls, setCalled, known, lastSet, lastTray>>

shared == <<interval, lockHolder, poisoned, window, proc, exitCode>>

SetPcs == {"set_lock", "set_hi", "set_lo"}
GetPcs == {"get_lock", "get_hi", "get_lo"}
FetchPcs == {"f_send", "f_text"}

Ret(op, val, res) == [op |-> op, val |-> val, res |-> res]
NoRet == Ret("none", Zero, NoResult)

Window(exists, visible, focused) ==
    [exists |-> exists, visible |-> visible, focused |-> focused]

Windows ==
    { Window(FALSE, FALSE, FALSE), Window(TRUE, FALSE, FALSE),
      Window(TRUE, TRUE, FALSE), Window(TRUE, TRUE, TRUE) }

\* known.live: a set_interval(v) has returned (by: its context) or a
\* get_interval has returned v (seen), and since then no set_interval has
\* been invoked or was still running.
Unknown == [live |-> FALSE, v |-> Zero, by |-> NoCtx, seen |-> FALSE]
Known(v, by, seen) == [live |-> TRUE, v |-> v, by |-> by, seen |-> seen]

NoTray == [src |-> "none", kind |-> "", button |-> ""]
Menu(id) == [src |-> "menu", kind |-> id, button |-> ""]
Icon(kind, button) == [src |-> "icon", kind |-> kind, button |-> button]

MenuIds == {"show", "quit", "about"}
IconEvents == {Icon("Click", "Left"), Icon("Click", "Right"), Icon("DoubleClick", "Left")}

\* run(): .manage(AppState { interval: Mutex::new(5000) }); the window is
\* the host's, so it may or may not exist, be shown or have the focus.
Init ==
    /\ interval = DefaultInterval
    /\ lockHolder = NoCtx
    /\ poisoned = FALSE
    /\ pc = [p \in Ctx |-> "idle"]
    /\ ms = [p \in Ctx |-> Zero]
    /\ tmp = [p \in Ctx |-> Zero]
    /\ ret = [p \in Ctx |-> NoRet]
    /\ wire = [p \in Ctx |-> NoResponse]
    /\ reqs = [p \in Ctx |-> 0]
    /\ window \in Windows
    /\ proc = "running"
    /\ exitCode = <<>>
    /\ calls = 0
    /\ setCalled = FALSE
    /\ known = Unknown
    /\ lastSet = DefaultInterval
    /\ lastTray = NoTray

\* A command is invoked on an idle context of the running process; what the
\* context's previous command left behind is gone.
Invoke(p) ==
    /\ proc = "running"
    /\ pc[p] = "idle"
    /\ calls < MaxEvents
    /\ calls' = calls + 1
    /\ ret' = [ret EXCEPT ![p] = NoRet]
    /\ wire' = [wire EXCEPT ![p] = NoResponse]

Running(p, at) == proc = "running" /\ pc[p] = at

SetInFlight(others) == \E q \in others : pc[q] \in SetPcs

\* ----------------------------------------------------------- set_interval

\* Faulty variant: a new interval cancels the fetches in flight, which
\* return an error to their callers.
SetCallCancels(p, v) ==
    /\ proc = "running"
    /\ pc[p] = "idle"
    /\ calls < MaxEvents
    /\ calls' = calls + 1
    /\ pc' = [q \in Ctx |-> IF q = p THEN "set_lock"
                            ELSE IF pc[q] \in FetchPcs THEN "idle" ELSE pc[q]]
    /\ ret' = [q \in Ctx |-> IF q = p THEN NoRet
                             ELSE IF pc[q] \in FetchPcs
                                  THEN Ret("fetch", Zero, Err("cancelled"))
                             ELSE ret[q]]
    /\ wire' = [wire EXCEPT ![p] = NoResponse]
    /\ ms' = [ms EXCEPT ![p] = v]
    /\ setCalled' = TRUE
    /\ known' = Unknown
    /\ reqs' = [reqs EXCEPT ![p] = 0]
    /\ UNCHANGED <<shared, tmp, lastSet, lastTray>>

SetCall(p, v) ==
    /\ Invoke(p)
    /\ pc' = [pc EXCEPT ![p] = "set_lock"]
    /\ ms' = [ms EXCEPT ![p] = v]
    /\ setCalled' = TRUE
    /\ known' = Unknown
    /\ reqs' = [reqs EXCEPT ![p] = 0]
    /\ UNCHANGED <<shared, tmp, lastSet, lastTray>>

\* A panic on the context running a command takes the process down.
Panic(p) ==
    /\ pc' = [pc EXCEPT ![p] = "panicked"]
    /\ proc' = "panicked"
    /\ exitCode' = <<101>>

\* Faulty variant: lock() does not wait for the holder (the value is kept
\* in a cell without mutual exclusion).
LockUnwrapNoExclusion(p, next) ==
    /\ lockHolder' = p
    /\ pc' = [pc EXCEPT ![p] = next]
    /\ UNCHANGED <<proc, exitCode>>

\* state.interval.lock().unwrap(): waits until the Mutex is free; a poisoned
\* Mutex gives Err, which unwrap turns into a panic (the guard inside the
\* error is dropped, so the lock is free again).
LockUnwrap(p, next) ==
    /\ lockHolder = NoCtx
    /\ IF poisoned
       THEN Panic(p) /\ UNCHANGED lockHolder
       ELSE /\ lockHolder' = p
            /\ pc' = [pc EXCEPT ![p] = next]
            /\ UNCHANGED <<proc, exitCode>>

SetLock(p) ==
    /\ Running(p, "set_lock")
    /\ LockUnwrap(p, "set_hi")
    /\ UNCHANGED <<interval, poisoned, window, ms, tmp, ret, wire, reqs, calls,
                   setCalled, known, lastSet, lastTray>>

\* Faulty variant: the argument is narrowed to 32 bits before the store.
SetWriteHiTruncated(p) ==
    /\ Running(p, "set_hi")
    /\ interval' = [interval EXCEPT !.hi = WordZero]
    /\ pc' = [pc EXCEPT ![p] = "set_lo"]
    /\ UNCHANGED <<lockHolder, poisoned, window, proc, exitCode, ms, tmp, ret,
                   wire, reqs, calls, setCalled, known, lastSet, lastTray>>

\* Faulty variant: the argument is validated inside the critical section
\* (assert!(ms > 0)), so the guard is dropped by a panicking holder, which
\* poisons the Mutex.
SetWriteHiChecked(p) ==
    /\ Running(p, "set_hi")
    /\ IF ms[p] = Zero
       THEN /\ Panic(p)
            /\ poisoned' = TRUE
            /\ lockHolder' = NoCtx
            /\ UNCHANGED interval
       ELSE /\ interval' = [interval EXCEPT !.hi = ms[p].hi]
            /\ pc' = [pc EXCEPT ![p] = "set_lo"]
            /\ UNCHANGED <<lockHolder, poisoned, proc, exitCode>>
    /\ UNCHANGED <<window, ms, tmp, ret, wire, reqs, calls, setCalled, known,
                   lastSet, lastTray>>

\* *guard = ms, first word.
SetWriteHi(p) ==
    /\ Running(p, "set_hi")
    /\ interval' = [interval EXCEPT !.hi = ms[p].hi]
    /\ pc' = [pc EXCEPT ![p] = "set_lo"]
    /\ UNCHANGED <<lockHolder, poisoned, window, proc, exitCode, ms, tmp, ret,
                   wire, reqs, calls, setCalled, known, lastSet, lastTray>>

\* Faulty variant: the interval is clamped to a minimum of 1000 ms.
SetWriteLoClamped(p) ==
    /\ Running(p, "set_lo")
    /\ interval' = [interval EXCEPT
                       !.lo = IF ms[p] = Zero THEN <<0, 1000>> ELSE ms[p].lo]
    /\ lockHolder' = IF lockHolder = p THEN NoCtx ELSE lockHolder
    /\ pc' = [pc EXCEPT ![p] = "idle"]
    /\ ret' = [ret EXCEPT ![p] = Ret("set", Zero, NoResult)]
    /\ ms' = [ms EXCEPT ![p] = Zero]
    /\ known' = IF SetInFlight(Ctx \ {p}) THEN Unknown ELSE Known(ms[p], p, FALSE)
    /\ lastSet' = ms[p]
    /\ UNCHANGED <<poisoned, window, proc, exitCode, tmp, wire, reqs, calls,
                   setCalled, lastTray>>

\* Faulty variant: the guard is leaked (std::mem::forget), so the Mutex stays
\* locked after the command has returned.
SetWriteLoLeaks(p) ==
    /\ Running(p, "set_lo")
    /\ interval' = [interval EXCEPT !.lo = ms[p].lo]
    /\ pc' = [pc EXCEPT ![p] = "idle"]
    /\ ret' = [ret EXCEPT ![p] = Ret("set", Zero, NoResult)]
    /\ ms' = [ms EXCEPT ![p] = Zero]
    /\ known' = IF SetInFlight(Ctx \ {p}) THEN Unknown ELSE Known(ms[p], p, FALSE)
    /\ lastSet' = ms[p]
    /\ UNCHANGED <<lockHolder, poisoned, window, proc, exitCode, tmp, wire, reqs,
                   calls, setCalled, lastTray>>

\* *guard = ms, second word; the guard is a temporary of the statement, so
\* the Mutex is released and the command returns ().
SetWriteLo(p) ==
    /\ Running(p, "set_lo")
    /\ interval' = [interval EXCEPT !.lo = ms[p].lo]
    /\ lockHolder' = IF lockHolder = p THEN NoCtx ELSE lockHolder
    /\ pc' = [pc EXCEPT ![p] = "idle"]
    /\ ret' = [ret EXCEPT ![p] = Ret("set", Zero, NoResult)]
    /\ ms' = [ms EXCEPT ![p] = Zero]
    /\ known' = IF SetInFlight(Ctx \ {p}) THEN Unknown ELSE Known(ms[p], p, FALSE)
    /\ lastSet' = ms[p]
    /\ UNCHANGED <<poisoned, window, proc, exitCode, tmp, wire, reqs, calls,
                   setCalled, lastTray>>

\* ----------------------------------------------------------- get_interval

GetCall(p) ==
    /\ Invoke(p)
    /\ pc' = [pc EXCEPT ![p] = "get_lock"]
    /\ reqs' = [reqs EXCEPT ![p] = 0]
    /\ UNCHANGED <<shared, ms, tmp, setCalled, known, lastSet, lastTray>>

GetLock(p) ==
    /\ Running(p, "get_lock")
    /\ LockUnwrap(p, "get_hi")
    /\ UNCHANGED <<interval, poisoned, window, ms, tmp, ret, wire, reqs, calls,
                   setCalled, known, lastSet, lastTray>>

\* Faulty variant: the read takes the value (std::mem::take), leaving 0.
GetReadHiTake(p) ==
    /\ Running(p, "get_hi")
    /\ tmp' = [tmp EXCEPT ![p] = U64(interval.hi, WordZero)]
    /\ interval' = [interval EXCEPT !.hi = WordZero]
    /\ pc' = [pc EXCEPT ![p] = "get_lo"]
    /\ UNCHANGED <<lockHolder, poisoned, window, proc, exitCode, ms, ret, wire,
                   reqs, calls, setCalled, known, lastSet, lastTray>>

\* *guard, first word.
GetReadHi(p) ==
    /\ Running(p, "get_hi")
    /\ tmp' = [tmp EXCEPT ![p] = U64(interval.hi, WordZero)]
    /\ pc' = [pc EXCEPT ![p] = "get_lo"]
    /\ UNCHANGED <<shared, ms, ret, wire, reqs, calls, setCalled, known, lastSet, lastTray>>

\* *guard, second word; the guard is dropped and the copy is returned.
GetReadLo(p) ==
    /\ Running(p, "get_lo")
    /\ LET v == U64(tmp[p].hi, interval.lo) IN
       /\ ret' = [ret EXCEPT ![p] = Ret("get", v, NoResult)]
       /\ known' = IF known.live THEN [known EXCEPT !.seen = TRUE]
                   ELSE IF SetInFlight(Ctx) THEN Unknown
                   ELSE Known(v, NoCtx, TRUE)
    /\ tmp' = [tmp EXCEPT ![p] = Zero]
    /\ lockHolder' = IF lockHolder = p THEN NoCtx ELSE lockHolder
    /\ pc' = [pc EXCEPT ![p] = "idle"]
    /\ UNCHANGED <<interval, poisoned, window, proc, exitCode, ms, wire, reqs,
                   calls, setCalled, lastSet, lastTray>>

\* ----------------------------------------------------------- fetch_status

\* Faulty variant: the command takes the interval guard (to derive a
\* timeout) and keeps it across the await.
FetchCallLocked(p) ==
    /\ Invoke(p)
    /\ lockHolder = NoCtx
    /\ lockHolder' = p
    /\ pc' = [pc EXCEPT ![p] = "f_send"]
    /\ reqs' = [reqs EXCEPT ![p] = 1]
    /\ UNCHANGED <<interval, poisoned, window, proc, exitCode, ms, tmp,
                   setCalled, known, lastSet, lastTray>>

\* Client::new(); client.get(url).send(): the one request goes out, and the
\* task is suspended on it.
FetchCall(p) ==
    /\ Invoke(p)
    /\ pc' = [pc EXCEPT ![p] = "f_send"]
    /\ reqs' = [reqs EXCEPT ![p] = 1]
    /\ UNCHANGED <<shared, ms, tmp, setCalled, known, lastSet, lastTray>>

Return(p, result) ==
    /\ pc' = [pc EXCEPT ![p] = "idle"]
    /\ ret' = [ret EXCEPT ![p] = Ret("fetch", Zero, result)]

\* Faulty variant: a failed send is retried once before the error is returned.
FetchSendErrRetry(p) ==
    /\ Running(p, "f_send")
    /\ IF reqs[p] < 2
       THEN /\ reqs' = [reqs EXCEPT ![p] = reqs[p] + 1]
            /\ UNCHANGED <<pc, ret>>
       ELSE /\ Return(p, Err(TransportMsg))
            /\ UNCHANGED reqs
    /\ UNCHANGED <<shared, ms, tmp, wire, calls, setCalled, known, lastSet, lastTray>>

\* send().await gives Err: .map_err(|e| e.to_string())? returns it.
FetchSendErr(p) ==
    /\ Running(p, "f_send")
    /\ Return(p, Err(TransportMsg))
    /\ UNCHANGED <<shared, ms, tmp, wire, reqs, calls, setCalled, known, lastSet, lastTray>>

\* Faulty variant: the status is checked (error_for_status), so an answer
\* with a 4xx or 5xx status is returned as an error.
FetchSendOkChecked(p, r) ==
    /\ Running(p, "f_send")
    /\ wire' = [wire EXCEPT ![p] = r]
    /\ IF r.status >= 400
       THEN Return(p, Err("HTTP status error"))
       ELSE pc' = [pc EXCEPT ![p] = "f_text"] /\ UNCHANGED ret
    /\ UNCHANGED <<shared, ms, tmp, reqs, calls, setCalled, known, lastSet,
                   lastTray>>

\* send().await gives the response r; the task is suspended on text().
FetchSendOk(p, r) ==
    /\ Running(p, "f_send")
    /\ wire' = [wire EXCEPT ![p] = r]
    /\ pc' = [pc EXCEPT ![p] = "f_text"]
    /\ UNCHANGED <<shared, ms, tmp, ret, reqs, calls, setCalled, known, lastSet, lastTray>>

\* text().await gives Err: .map_err(|e| e.to_string())? returns it.
FetchTextErr(p) ==
    /\ Running(p, "f_text")
    /\ ~wire[p].decodable
    /\ Return(p, Err(DecodeMsg))
    /\ UNCHANGED <<shared, ms, tmp, wire, reqs, calls, setCalled, known, lastSet, lastTray>>

\* Faulty variant: a body that does not parse gives Ok(Value::Null)
\* (unwrap_or_default instead of ?).
FetchTextOkLenient(p) ==
    /\ Running(p, "f_text")
    /\ wire[p].decodable
    /\ LET json == FromStr(wire[p].body) IN
       Return(p, IF json.ok THEN Ok(json.val) ELSE Ok(JNull))
    /\ UNCHANGED <<shared, ms, tmp, wire, reqs, calls, setCalled, known,
                   lastSet, lastTray>>

\* Faulty variant: a successful fetch resets the stored interval.
FetchTextOkStoring(p) ==
    /\ Running(p, "f_text")
    /\ wire[p].decodable
    /\ LET json == FromStr(wire[p].body) IN
       /\ Return(p, IF json.ok THEN Ok(json.val) ELSE Err(json.msg))
       /\ interval' = IF json.ok THEN DefaultInterval ELSE interval
    /\ UNCHANGED <<lockHolder, poisoned, window, proc, exitCode, ms, tmp, wire,
                   reqs, calls, setCalled, known, lastSet, lastTray>>

\* text().await gives the body; serde_json::from_str(&resp) decides the result.
FetchTextOk(p) ==
    /\ Running(p, "f_text")
    /\ wire[p].decodable
    /\ LET json == FromStr(wire[p].body) IN
       Return(p, IF json.ok THEN Ok(json.val) ELSE Err(json.msg))
    /\ UNCHANGED <<shared, ms, tmp, wire, reqs, calls, setCalled, known, lastSet, lastTray>>

\* ------------------------------------------------------------------- tray

\* Faulty variant: a missing window is built again before it is shown.
ShowMainCreates ==
    window' = Window(TRUE, TRUE, TRUE)

\* Faulty variant: the window is shown, but set_focus is not called.
ShowMainNoFocus ==
    window' = IF window.exists THEN Window(TRUE, TRUE, window.focused) ELSE window

\* if let Some(window) = app.get_webview_window("main") { show; set_focus }
ShowMain ==
    window' = IF window.exists THEN Window(TRUE, TRUE, TRUE) ELSE window

\* app.exit(code)
AppExit(code) ==
    /\ proc' = "exiting"
    /\ exitCode' = <<code>>

\* The host delivers a tray event to the running process.
Dispatch(event) ==
    /\ proc = "running"
    /\ calls < MaxEvents
    /\ calls' = calls + 1
    /\ lastTray' = event

\* Faulty variant: the "quit" arm is missing, so "quit" falls to _ => {}.
OnMenuEventNoQuit(id) ==
    /\ Dispatch(Menu(id))
    /\ IF id = "show" THEN ShowMain /\ UNCHANGED <<proc, exitCode>>
       ELSE UNCHANGED <<window, proc, exitCode>>
    /\ UNCHANGED <<interval, lockHolder, poisoned, pc, ms, tmp, ret, wire, reqs,
                   setCalled, known, lastSet>>

\* Faulty variant: the default arm of the match exits (_ => app.exit(0)).
OnMenuEventDefaultExits(id) ==
    /\ Dispatch(Menu(id))
    /\ IF id = "show" THEN ShowMain /\ UNCHANGED <<proc, exitCode>>
       ELSE AppExit(0) /\ UNCHANGED window
    /\ UNCHANGED <<interval, lockHolder, poisoned, pc, ms, tmp, ret, wire, reqs,
                   setCalled, known, lastSet>>

OnMenuEvent(id) ==
    /\ Dispatch(Menu(id))
    /\ IF id = "show" THEN ShowMain /\ UNCHANGED <<proc, exitCode>>
       ELSE IF id = "quit" THEN AppExit(0) /\ UNCHANGED window
       ELSE UNCHANGED <<window, proc, exitCode>>
    /\ UNCHANGED <<interval, lockHolder, poisoned, pc, ms, tmp, ret, wire, reqs,
                   setCalled, known, lastSet>>

\* Faulty variant: the pattern leaves the button out (Click { .. }), so a
\* click of any button shows the window.
OnTrayIconEventAnyClick(event) ==
    /\ Dispatch(event)
    /\ IF event.kind = "Click" THEN ShowMain ELSE UNCHANGED window
    /\ UNCHANGED <<interval, lockHolder, poisoned, pc, ms, tmp, ret, wire, reqs,
                   proc, exitCode, setCalled, known, lastSet>>

\* Faulty variant: the left click shows the window without set_focus.
OnTrayIconEventNoFocus(event) ==
    /\ Dispatch(event)
    /\ IF event.kind = "Click" /\ event.button = "Left"
       THEN ShowMainNoFocus
       ELSE UNCHANGED window
    /\ UNCHANGED <<interval, lockHolder, poisoned, pc, ms, tmp, ret, wire, reqs,
                   proc, exitCode, setCalled, known, lastSet>>

\* Faulty variant: the left click toggles the window, hiding a visible one.
OnTrayIconEventToggle(event) ==
    /\ Dispatch(event)
    /\ IF event.kind = "Click" /\ event.button = "Left"
       THEN window' = IF window.exists /\ window.visible
                      THEN Window(TRUE, FALSE, FALSE)
                      ELSE IF window.exists THEN Window(TRUE, TRUE, TRUE)
                      ELSE window
       ELSE UNCHANGED window
    /\ UNCHANGED <<interval, lockHolder, poisoned, pc, ms, tmp, ret, wire, reqs,
                   proc, exitCode, setCalled, known, lastSet>>

OnTrayIconEvent(event) ==
    /\ Dispatch(event)
    /\ IF event.kind = "Click" /\ event.button = "Left"
       THEN ShowMain
       ELSE UNCHANGED window
    /\ UNCHANGED <<interval, lockHolder, poisoned, pc, ms, tmp, ret, wire, reqs,
                   proc, exitCode, setCalled, known, lastSet>>

\* ------------------------------------------------------------ specification

Next ==
    \/ \E p \in Ctx, v \in U64Vals : SetCall(p, v)
    \/ \E p \in Ctx : SetLock(p)
    \/ \E p \in Ctx : SetWriteHi(p)
    \/ \E p \in Ctx : SetWriteLo(p)
    \/ \E p \in Ctx : GetCall(p)
    \/ \E p \in Ctx : GetLock(p)
    \/ \E p \in Ctx : GetReadHi(p)
    \/ \E p \in Ctx : GetReadLo(p)
    \/ \E p \in Ctx : FetchCall(p)
    \/ \E p \in Ctx : FetchSendErr(p)
    \/ \E p \in Ctx, r \in Responses : FetchSendOk(p, r)
    \/ \E p \in Ctx : FetchTextErr(p)
    \/ \E p \in Ctx : FetchTextOk(p)
    \/ \E id \in MenuIds : OnMenuEvent(id)
    \/ \E event \in IconEvents : OnTrayIconEvent(event)

Spec == Init /\ [][Next]_vars

\* Fair scheduling: the context holding the guard keeps running, and a
\* context waiting in lock() gets the Mutex if it is free again and again.
HolderStep ==
    \E p \in Ctx : SetWriteHi(p) \/ SetWriteLo(p) \/ GetReadHi(p) \/ GetReadLo(p)

FairSpec ==
    /\ Spec
    /\ WF_vars(HolderStep)
    /\ \A p \in Ctx : SF_vars(SetLock(p) \/ GetLock(p))

\* ----------------------------------------------------------------- claims

Is5000(v) == v = [hi |-> <<0, 0>>, lo |-> <<0, 5000>>]

GetDone(p) == pc[p] = "idle" /\ ret[p].op = "get"
SetDone(p) == pc[p] = "idle" /\ ret[p].op = "set"
FetchDone(p) == pc[p] = "idle" /\ ret[p].op = "fetch"

\* A step of context p inside the named command.
StepIn(p, pcs) == pc'[p] # pc[p] /\ (pc[p] \in pcs \/ pc'[p] \in pcs)
GetReturns(p) == pc[p] = "get_lo" /\ pc'[p] = "idle"

\* C1: a get_interval that a context makes after its own set_interval(ms),
\* with no other set_interval invoked or running since that set_interval
\* returned, returns exactly ms, for ms = 0 and ms = 2^64-1 alike and whatever
\* fetch_status calls are in flight.
C1_RoundTrip ==
    \A p \in Ctx :
        (GetDone(p) /\ known.live /\ known.by = p) => ret[p].val = known.v

C1_Witness ==
    \E p \in Ctx, q \in Ctx :
        /\ GetDone(p) /\ known.live /\ known.by = p
        /\ ret[p].val = [hi |-> <<65535, 65535>>, lo |-> <<65535, 65535>>]
        /\ pc[q] \in FetchPcs

\* C2: as long as set_interval has not been called, the stored interval is
\* 5000 and every get_interval has returned 5000, whatever fetch_status
\* calls and tray events have happened.
C2_Default ==
    ~setCalled =>
        /\ Is5000(interval)
        /\ \A p \in Ctx : ret[p].op = "get" => Is5000(ret[p].val)

C2_Witness ==
    /\ ~setCalled
    /\ lastTray.src # "none"
    /\ \E p \in Ctx, q \in Ctx : GetDone(p) /\ FetchDone(q)

\* C3: once a set_interval(v) has returned and no other set_interval is
\* invoked or running, every get_interval that returns, on whatever context,
\* returns v.
C3_ConcurrentGets ==
    [][\A p \in Ctx :
          (GetReturns(p) /\ known.live /\ known.by \in Ctx)
              => (ret'[p].op = "get" /\ ret'[p].val = known.v)]_vars

C3_Witness ==
    /\ known.live /\ known.by \in Ctx
    /\ known.v = U64Max
    /\ \E p \in Ctx, q \in Ctx :
          p # q /\ GetDone(p) /\ GetDone(q) /\ ret[p].val = U64Max /\ ret[q].val = U64Max

\* C4: a step of get_interval leaves the stored interval as it is, and a
\* get_interval that returns after another get_interval returned v, with no
\* set_interval invoked or running in between, returns v as well.
C4_GetIsPure ==
    [][\A p \in Ctx :
          /\ StepIn(p, GetPcs) => interval' = interval
          /\ (GetReturns(p) /\ known.live /\ known.seen) => ret'[p].val = known.v]_vars

C4_Witness ==
    /\ known.live /\ known.seen /\ known.by = NoCtx
    /\ \E p \in Ctx, q \in Ctx :
          p # q /\ GetDone(p) /\ GetDone(q) /\ ret[p].val = ret[q].val
          /\ ret[p].val = interval

\* C5: no set_interval or get_interval ever panics: the process never
\* panics, no context is left in a panic, and the Mutex is never poisoned.
C5_Total ==
    /\ proc # "panicked"
    /\ ~poisoned
    /\ \A p \in Ctx : pc[p] # "panicked"

C5_Witness ==
    \E p \in Ctx, q \in Ctx, r \in Ctx :
        /\ SetDone(p) /\ GetDone(q) /\ pc[r] \in FetchPcs
        /\ ret[q].val = Zero

\* C6: a context inside fetch_status never holds the interval lock; the
\* holder is always inside the critical section of a set_interval or a
\* get_interval and can take its next step; and a set_interval or
\* get_interval waiting for the lock can take it whenever it is free,
\* whatever fetch_status calls are in flight.
C6_FetchHoldsNoLock ==
    /\ \A p \in Ctx : pc[p] \in FetchPcs => lockHolder # p
    /\ lockHolder # NoCtx =>
          pc[lockHolder] \in {"set_hi", "set_lo", "get_hi", "get_lo"}
    /\ proc = "running" =>
          \A p \in Ctx :
              /\ (pc[p] = "set_lock" /\ lockHolder = NoCtx) => ENABLED SetLock(p)
              /\ (pc[p] = "get_lock" /\ lockHolder = NoCtx) => ENABLED GetLock(p)
              /\ lockHolder = p =>
                    ENABLED (SetWriteHi(p) \/ SetWriteLo(p) \/ GetReadHi(p) \/ GetReadLo(p))

C6_Witness ==
    \E p \in Ctx, q \in Ctx, r \in Ctx :
        /\ pc[q] = "f_send" /\ pc[r] = "f_text"
        /\ SetDone(p) /\ interval = U64Max

\* C7: no step of fetch_status, whatever its outcome, changes the stored
\* interval, the lock, the window or the process state.
C7_FetchFrame ==
    [][\A p \in Ctx : StepIn(p, FetchPcs) => UNCHANGED shared]_vars

C7_Witness ==
    \E p \in Ctx, q \in Ctx :
        /\ FetchDone(p) /\ ret[p].res.kind = "Ok"
        /\ GetDone(q) /\ ret[q].val = U64Max /\ interval = U64Max

ParseMsgs ==
    { EofValue, EofList, EofObject, ExpectedValue, ExpectedComma,
      ExpectedCommaObj, ExpectedColon, KeyMustBeString, TrailingChars }

IsFailure(r, msgs) == r.kind = "Err" /\ r.val = JNull /\ r.msg \in msgs

\* {"a":1} and {"b":"a"} as trees.
TreeA1 == [t |-> "obj", n |-> 0, s |-> "", kids |->
             << [t |-> "member", n |-> 0, s |-> "a", kids |->
                   << [t |-> "num", n |-> 1, s |-> "", kids |-> <<>>] >>] >>]
TreeBa == [t |-> "obj", n |-> 0, s |-> "", kids |->
             << [t |-> "member", n |-> 0, s |-> "b", kids |->
                   << [t |-> "str", n |-> 0, s |-> "a", kids |-> <<>>] >>] >>]

\* C8: the result of a finished fetch_status is decided by its response: no
\* answer gives the transport failure, an undecodable body the decode
\* failure, a body that is no valid document a parse failure, and a valid
\* document the success carrying its tree; a failure is a message only.
C8_FetchOutcome ==
    \A p \in Ctx :
        FetchDone(p) =>
            LET w == wire[p]
                r == ret[p].res
            IN  /\ ~w.answered => IsFailure(r, {TransportMsg})
                /\ (w.answered /\ ~w.decodable) => IsFailure(r, {DecodeMsg})
                /\ (w.answered /\ w.decodable /\ w.body = <<"<html>">>)
                      => IsFailure(r, ParseMsgs)
                /\ (w.answered /\ w.decodable /\ w.body = <<"{", "\"a\"", ":", "1", "}">>)
                      => r = [kind |-> "Ok", val |-> TreeA1, msg |-> ""]
                /\ (w.answered /\ w.decodable /\ w.body = <<"{", "\"b\"", ":", "\"a\"", "}">>)
                      => r = [kind |-> "Ok", val |-> TreeBa, msg |-> ""]
                /\ r.kind \in {"Ok", "Err"}

C8_Witness ==
    \E p \in Ctx, q \in Ctx, r \in Ctx :
        /\ FetchDone(p) /\ ret[p].res.kind = "Ok" /\ ret[p].res.val = TreeA1
        /\ FetchDone(q) /\ ret[q].res.msg = TransportMsg
        /\ FetchDone(r) /\ ret[r].res.msg = ExpectedValue

\* C9: a fetch_status call has issued exactly one request, while it is in
\* flight and when it is finished, whatever its outcome; a command that is
\* not a fetch_status has issued none; and a successful call carries the
\* tree of the response to its own request.
C9_OneRequest ==
    \A p \in Ctx :
        /\ reqs[p] = IF pc[p] \in FetchPcs \/ ret[p].op = "fetch" THEN 1 ELSE 0
        /\ (FetchDone(p) /\ ret[p].res.kind = "Ok") =>
              /\ wire[p].answered
              /\ wire[p].status = 200 => ret[p].res.val = TreeA1
              /\ wire[p].status = 500 => ret[p].res.val = TreeBa

C9_Witness ==
    \E p \in Ctx, q \in Ctx, r \in Ctx :
        /\ FetchDone(p) /\ ret[p].res.val = TreeA1 /\ reqs[p] = 1
        /\ FetchDone(q) /\ ret[q].res.val = TreeBa /\ reqs[q] = 1
        /\ FetchDone(r) /\ ret[r].res.kind = "Err" /\ reqs[r] = 1

\* C10: a "quit" menu event leaves the process exiting with code 0, whatever
\* the window, the interval, the lock and the calls in flight are, and once
\* the process is exiting no step changes anything.
C10_Quit ==
    [][/\ lastTray' = Menu("quit") => (proc' = "exiting" /\ exitCode' = <<0>>)
       /\ proc = "exiting" => UNCHANGED vars]_vars

C10_Witness ==
    /\ proc = "exiting" /\ exitCode = <<0>>
    /\ lastTray = Menu("quit")
    /\ lockHolder # NoCtx
    /\ \E q \in Ctx : pc[q] \in FetchPcs

\* Everything a tray handler may not touch when it only shows the window.
trayFrame == <<interval, lockHolder, poisoned, pc, ms, tmp, ret, wire, reqs,
               proc, exitCode, setCalled, known, lastSet>>

VisibleFocused == [exists |-> TRUE, visible |-> TRUE, focused |-> TRUE]
LeftClick == [src |-> "icon", kind |-> "Click", button |-> "Left"]

\* C11: with no main window, no "show" menu event can change anything: the
\* interval, the lock, the commands in flight, the window (still absent)
\* and the process (still running) are as before, and nothing panics.
C11_ShowNoWindow ==
    ~window.exists =>
        ~ENABLED (OnMenuEvent("show") /\ ~UNCHANGED <<trayFrame, window>>)

C11_Witness ==
    /\ lastTray = Menu("show")
    /\ ~window.exists /\ ~window.visible
    /\ proc = "running"
    /\ interval = U64Max

\* C13: the process is exiting only after a "quit" menu event, and it never
\* panics: show events, tray clicks, other menu identifiers and the three
\* commands, with any results, leave it running.
C13_ExitOnlyByQuit ==
    /\ proc = "exiting" => lastTray = Menu("quit")
    /\ proc # "panicked"
    /\ lastTray # Menu("quit") => (proc = "running" /\ exitCode = <<>>)

C13_Witness ==
    /\ proc = "running"
    /\ lastTray = LeftClick
    /\ \E p \in Ctx, q \in Ctx :
          /\ FetchDone(p) /\ ret[p].res.kind = "Err"
          /\ SetDone(q)

\* C14: with a main window, a "show" menu event can only leave the window
\* visible and focused, whether it was hidden or visible before, and changes
\* nothing else.
C14_ShowMakesVisible ==
    window.exists =>
        ~ENABLED (OnMenuEvent("show")
                    /\ ~(window' = VisibleFocused /\ UNCHANGED trayFrame))

C14_Witness ==
    /\ lastTray = Menu("show")
    /\ window = VisibleFocused
    /\ proc = "running"
    /\ \E p \in Ctx : pc[p] \in FetchPcs

\* C15: in every state, a left click on the tray icon and a "show" menu
\* event have the same effect: each leads to the same window states, and
\* neither changes anything else.
C15_LeftClickIsShow ==
    /\ \A w \in Windows :
          ENABLED (OnTrayIconEvent(LeftClick) /\ window' = w)
              <=> ENABLED (OnMenuEvent("show") /\ window' = w)
    /\ ~ENABLED (OnTrayIconEvent(LeftClick) /\ ~UNCHANGED trayFrame)
    /\ ~ENABLED (OnMenuEvent("show") /\ ~UNCHANGED trayFrame)

C15_Witness ==
    /\ lastTray = LeftClick
    /\ window = VisibleFocused
    /\ proc = "running"
    /\ calls = 1

\* C16: a menu event other than "show" and "quit", and a tray icon event
\* other than a click of the left button, can change nothing: window,
\* interval, lock, commands and process stay as they are.
C16_OthersIgnored ==
    /\ \A id \in MenuIds \ {"show", "quit"} :
          ~ENABLED (OnMenuEvent(id) /\ ~UNCHANGED <<trayFrame, window>>)
    /\ \A event \in IconEvents \ {LeftClick} :
          ~ENABLED (OnTrayIconEvent(event) /\ ~UNCHANGED <<trayFrame, window>>)

C16_Witness ==
    /\ lastTray = [src |-> "icon", kind |-> "Click", button |-> "Right"]
    /\ window = [exists |-> TRUE, visible |-> FALSE, focused |-> FALSE]
    /\ proc = "running"
    /\ interval = Zero

\* C12: the lock cannot deadlock. The one lock has at most one holder, the
\* holder is inside the critical section of a set_interval or get_interval
\* and never inside a fetch, a context waiting for the lock holds nothing,
\* and under fair scheduling every set_interval and get_interval that has
\* been invoked returns, unless the process exits first.
LockSafe ==
    /\ lockHolder \in Ctx \cup {NoCtx}
    /\ lockHolder # NoCtx =>
          pc[lockHolder] \in {"set_hi", "set_lo", "get_hi", "get_lo"}
    /\ \A p \in Ctx :
          pc[p] \in {"set_hi", "set_lo", "get_hi", "get_lo"} => lockHolder = p

C12_NoDeadlock ==
    /\ []LockSafe
    /\ \A p \in Ctx :
          (pc[p] \in SetPcs \cup GetPcs) ~> (pc[p] = "idle" \/ proc # "running")

C12_Witness ==
    \E p \in Ctx, q \in Ctx, r \in Ctx :
        /\ SetDone(p)
        /\ lockHolder = q /\ pc[q] = "get_hi"
        /\ pc[r] = "set_lock"
        /\ proc = "running"

\* What a fetch_status returns for the answer w to its request.
ResultForAnswer(w) ==
    IF ~w.decodable THEN [kind |-> "Err", val |-> JNull, msg |-> DecodeMsg]
    ELSE IF w.body = <<"{", "\"a\"", ":", "1", "}">>
         THEN [kind |-> "Ok", val |-> TreeA1, msg |-> ""]
    ELSE IF w.body = <<"{", "\"b\"", ":", "\"a\"", "}">>
         THEN [kind |-> "Ok", val |-> TreeBa, msg |-> ""]
    ELSE [kind |-> "Err", val |-> JNull, msg |-> ExpectedValue]

\* A fetch_status waiting for its response, or for a body that cannot be
\* decoded, can take its next step.
FetchFree ==
    proc = "running" =>
        \A q \in Ctx :
            /\ pc[q] = "f_send" =>
                  /\ ENABLED FetchSendErr(q)
                  /\ ENABLED (\E r \in Responses : FetchSendOk(q, r))
            /\ (pc[q] = "f_text" /\ ~wire[q].decodable) => ENABLED FetchTextErr(q)

\* C17: no step of a set_interval, with whatever value, changes the
\* position, the request, the response or the result of another context's
\* fetch_status; a fetch waiting for its response can always take its next
\* step, whoever holds the lock and whatever the interval is; and the result
\* a fetch returns is the one its own response decides.
C17_SetLeavesFetchAlone ==
    /\ []FetchFree
    /\ [][/\ \A p \in Ctx :
                StepIn(p, SetPcs) =>
                    \A q \in Ctx \ {p} :
                        /\ pc'[q] = pc[q]
                        /\ wire'[q] = wire[q]
                        /\ reqs'[q] = reqs[q]
                        /\ ret'[q] = ret[q]
          /\ \A q \in Ctx :
                (pc[q] = "f_text" /\ pc'[q] = "idle") =>
                    ret'[q].res = ResultForAnswer(wire[q])]_vars

C17_Witness ==
    \E p \in Ctx, q \in Ctx, r \in Ctx :
        /\ FetchDone(q) /\ ret[q].res = ResultForAnswer(wire[q]) /\ wire[q].answered
        /\ SetDone(p) /\ interval = Zero
        /\ GetDone(r) /\ ret[r].val = Zero

Whole == { [hi |-> <<0, 0>>, lo |-> <<0, 5000>>],
           [hi |-> <<0, 0>>, lo |-> <<0, 0>>],
           [hi |-> <<65535, 65535>>, lo |-> <<65535, 65535>>] }

\* C18: the stored interval is 5000 until a set_interval has written, and
\* then the argument of the last set_interval to have held the lock; only
\* the holder of the lock, between its two stores, has a half-written value
\* before it; a get_interval reads, and returns, a whole value: 5000 or the
\* argument of a set_interval, never a mixture of two.
C18_LastSetWins ==
    /\ lastSet \in Whole
    /\ ~setCalled => Is5000(lastSet)
    /\ (\A p \in Ctx : pc[p] # "set_lo") => interval = lastSet
    /\ \A p \in Ctx :
          /\ pc[p] = "set_lo" =>
                (lockHolder = p /\ interval = [hi |-> ms[p].hi, lo |-> lastSet.lo])
          /\ pc[p] = "get_lo" => (interval = lastSet /\ tmp[p].hi = lastSet.hi)
          /\ ret[p].op = "get" => ret[p].val \in Whole

C18_Witness ==
    \E p \in Ctx, q \in Ctx, r \in Ctx :
        /\ p # q /\ SetDone(p) /\ SetDone(q)
        /\ interval = lastSet /\ interval = U64Max
        /\ pc[r] = "get_lo" /\ tmp[r].hi = <<65535, 65535>>

ValidBodies == { <<"{", "\"a\"", ":", "1", "}">>, <<"{", "\"b\"", ":", "\"a\"", "}">> }

\* C19: a finished fetch_status has failed exactly when its request was
\* not answered, its body could not be read as text, or its body is no valid
\* document; the status of the answer plays no part, so a valid document
\* under a 500 status is returned as a success.
C19_StatusIgnored ==
    \A p \in Ctx :
        FetchDone(p) =>
            LET w == wire[p]
                r == ret[p].res
                good == w.answered /\ w.decodable /\ w.body \in ValidBodies
            IN  /\ r.kind = "Err" <=> ~good
                /\ r.kind = "Ok" <=> good
                /\ r.kind = "Err" =>
                      \/ ~w.answered /\ r.msg = TransportMsg
                      \/ w.answered /\ ~w.decodable /\ r.msg = DecodeMsg
                      \/ w.answered /\ w.decodable /\ w.body \notin ValidBodies
                            /\ r.msg \in ParseMsgs

C19_Witness ==
    \E p \in Ctx :
        /\ FetchDone(p)
        /\ wire[p].status = 500
        /\ ret[p].res = [kind |-> "Ok", val |-> TreeBa, msg |-> ""]

\* C20: a visible window of the running process stays visible in every
\* step: no show event, tray click, other event or command hides it, and the
\* only step that leaves the running state is the "quit" menu event.
C20_NeverHidden ==
    [][(proc = "running" /\ window.visible) =>
          /\ window'.visible
          /\ \/ proc' = "running"
             \/ proc' = "exiting" /\ lastTray' = Menu("quit")]_vars

C20_Witness ==
    /\ window.visible /\ proc = "running"
    /\ lastTray = Menu("about")
    /\ \E p \in Ctx, q \in Ctx : GetDone(p) /\ pc[q] \in FetchPcs

====
